---- MODULE Spec2Model ----
(***************************************************************************)
(* The scan engine of cloudsploit (src/unnamed/part_001, lines 112-398),   *)
(* driven over a catalog of checks whose remediate operation is the one of *)
(* the Lambda multiple-role plugin (src/unnamed/part_000).                 *)
(*                                                                         *)
(* JavaScript runs every handler to completion, so one action is one       *)
(* handler: the engine call, the collector callback, the login callback,   *)
(* a check's callback (postRun), the timer that signals pluginDone, and    *)
(* the callback of the provider action of a remediation.                   *)
(*                                                                         *)
(* A value the code would print or upload but never read back              *)
(* (resultsObject, console output, config.region) is not part of the       *)
(* state.                                                                  *)
(***************************************************************************)
EXTENDS Integers, Sequences, FiniteSets, TLC

(* ------------------------------ bounds -------------------------------- *)

\* Size of the catalog in the specification Spec.
NumPlugins ==
    2

\* Size of the catalog in the specification SpecMany (more than Limit).
ManyPlugins ==
    11

(* ------------------------- program constants -------------------------- *)

\* async.mapValuesLimit(plugins, 10, ...)
Limit ==
    10

\* var pluginName = 'lambdaUniqueRole';
pluginName ==
    "lambdaUniqueRole"

(* ------------------------------ values -------------------------------- *)

\* The JavaScript value undefined, where a string is expected.
Undefined ==
    "undefined"

\* The JavaScript value undefined, where a resource identifier is expected.
\* A resource identifier is the sequence of its ':'-separated segments, each
\* the sequence of its '/'-separated parts.
UndefinedResource ==
    << >>

Str(s) ==
    << <<s>> >>

FnArn(name) ==
    << <<"arn">>, <<"function">>, <<name>> >>

\* The key of an object property: obj[undefined] is obj['undefined'].
PropertyKey(resource) ==
    IF resource = UndefinedResource THEN Str("undefined") ELSE resource

Last(s) ==
    s[Len(s)]

\* resource.split(':').pop().split('/').pop()
FunctionNameOf(resource) ==
    Last(Last(resource))

\* A fold that keeps the last status instead of the largest.
Max_last(a, b) ==
    b

\* A fold that never takes the later status.
Max_first(a, b) ==
    a

\* Math.max
Max(a, b) ==
    IF a >= b THEN a ELSE b

\* Array.prototype.indexOf(x) > -1, Array.prototype.includes(x)
Includes(s, x) ==
    \E i \in DOMAIN s : s[i] = x

Result(status, region, resource) ==
    [status |-> status, region |-> region, resource |-> resource]

\* The names under which checks are registered, in catalog order.
KeyNames ==
    << "lambdaUniqueRole", "lambdaMultipleRole", "lambdaMissingExecutionRole",
       "p4", "p5", "p6", "p7", "p8", "p9", "p10", "p11", "p12", "p13" >>

(* ------------------------------- state -------------------------------- *)

VARIABLES
    settings,        \* the caller's settings (read only)
    cloudConfig,     \* the provider configuration (read only)
    aslConfig,       \* helpers/asl/config.json (read only)
    plugins,         \* exports[settings.cloud], in catalog order (read only)
    collection,      \* the snapshot handed over by the collector
    phase,           \* where the scan is
    skippedPlugins,  \* var skippedPlugins
    apiCalls,        \* var apiCalls
    maximumStatus,   \* var maximumStatus
    pstate,          \* per check: where its invocation is
    running,         \* async: the number of iteratees in flight
    nextElem,        \* async: the catalog index the iterator yields next
    iterDone,        \* async: the iterator is exhausted
    forwarded,       \* per check: the outputHandler.writeResult calls, in order
    rems,            \* per check: the plugin.remediate calls, in order
    closed,          \* the number of outputHandler.close calls
    exitCode,        \* process.exitCode, -1 while it is not set
    cache,           \* the snapshot handed to a plugin function called alone
    txlog,           \* settings.remediation_file of that call
    called           \* the callbacks of the plugin functions called alone

vars ==
    << settings, cloudConfig, aslConfig, plugins, collection, phase,
       skippedPlugins, apiCalls, maximumStatus, pstate, running, nextElem,
       iterDone, forwarded, rems, closed, exitCode, cache, txlog, called >>

\* What a plugin function called outside a scan reads and writes.
alone ==
    << cache, txlog, called >>

inputs ==
    << settings, cloudConfig, aslConfig, plugins >>

Idx ==
    DOMAIN plugins

KeyOf(p) ==
    plugins[p].key

(* ------------------------------ planner ------------------------------- *)

\* Only the first api of a check is collected.
AddApis_first(calls, apis, i) ==
    IF Len(apis) = 0 \/ Includes(calls, apis[1]) THEN calls
    ELSE Append(calls, apis[1])

\* Every api is pushed, also one that is in the list already.
AddApis_dup(calls, apis, i) ==
    calls \o apis

\* if (apiCalls.indexOf(api) === -1) apiCalls.push(api), for each api in turn
RECURSIVE AddApis(_, _, _)
AddApis(calls, apis, i) ==
    IF i > Len(apis) THEN calls
    ELSE AddApis(IF Includes(calls, apis[i]) THEN calls ELSE Append(calls, apis[i]),
                 apis, i + 1)

\* Skip GitHub plugins that do not match the run type
GithubSkip(plugin) ==
    /\ settings.cloud = "github"
    /\ \/ cloudConfig.organization /\ "org" \notin plugin.types
       \/ ~cloudConfig.organization /\ "org" \notin plugin.types

\* plugin.compliance[c]: a check's compliance map is the set of its
\* << program, justification >> entries.
ComplianceOf(plugin, c) ==
    IF \E e \in plugin.compliance : e[1] = c
    THEN (CHOOSE e \in plugin.compliance : e[1] = c)[2]
    ELSE Undefined

\* A string in a condition: undefined and '' are false.
Truthy(text) ==
    text # Undefined /\ text # ""

ComplianceSkip(plugin) ==
    /\ Len(settings.compliance) > 0
    /\ \/ plugin.compliance = {}
       \/ ~\E i \in DOMAIN settings.compliance :
              Truthy(ComplianceOf(plugin, settings.compliance[i]))

\* Only the id filter decides.
Skip_idOnly(plugin) ==
    settings.plugin # Undefined /\ settings.plugin # plugin.key

\* var skip, as it stands at line 240
Skip(plugin) ==
    IF settings.plugin # Undefined /\ settings.plugin # plugin.key
    THEN TRUE
    ELSE GithubSkip(plugin) \/ ComplianceSkip(plugin)

\* settings.remediate && settings.remediate.includes(pluginId)
RemediateRequested(key) ==
    Includes(settings.remediate, key)

\* One turn of Object.entries(plugins).forEach. A forEach on a list the
\* descriptor does not have throws a TypeError out of the engine.
PlanOne(acc, plugin) ==
    IF acc.crashed THEN acc
    ELSE IF Skip(plugin)
    THEN [acc EXCEPT !.skipped = Append(@, plugin.key)]
    ELSE IF ~plugin.hasApis
    THEN [acc EXCEPT !.crashed = TRUE]
    ELSE LET a1 == [acc EXCEPT !.apiCalls = AddApis(@, plugin.apis, 1)]
         IN IF ~RemediateRequested(plugin.key) THEN a1
            ELSE IF ~plugin.hasApisRemediate
            THEN [a1 EXCEPT !.crashed = TRUE]
            ELSE [a1 EXCEPT !.apiCalls = AddApis(@, plugin.apis_remediate, 1)]

RECURSIVE Planner(_, _)
Planner(acc, i) ==
    IF i > Len(plugins) THEN acc
    ELSE Planner(PlanOne(acc, plugins[i]), i + 1)

(* --------------------------- result pipeline -------------------------- *)

\* One segment of a suppression rule against one segment of a key.
SegMatch(pat, seg, star) ==
    pat = star \/ pat = seg

\* suppressionFilter(key): some rule matches the three segments of the key.
suppressionFilter(key) ==
    \E rule \in settings.suppress :
        /\ SegMatch(rule.check, key.check, "*")
        /\ SegMatch(rule.region, key.region, "*")
        /\ SegMatch(rule.resource, key.resource, Str("*"))

\* The key built without 'any' for an absent region or resource.
SuppressKey_raw(key, result) ==
    [check |-> key, region |-> result.region, resource |-> result.resource]

\* [key, results[r].region || 'any', results[r].resource || 'any']
SuppressKey(key, result) ==
    [check    |-> key,
     region   |-> IF result.region = Undefined THEN "any" ELSE result.region,
     resource |-> IF result.resource = UndefinedResource THEN Str("any")
                  ELSE result.resource]

Suppressed(key, result) ==
    suppressionFilter(SuppressKey(key, result))

\* String.prototype.toUpperCase, on the program ids that are used.
toUpperCase(c) ==
    CASE c = "hipaa" -> "HIPAA"
      [] c = "pci" -> "PCI"
      [] OTHER -> c

\* complianceMsg: `${c.toUpperCase()}: ${plugin.compliance[c]}` for the
\* requested programs the check's compliance map holds, in
\* requested order, joined; null when the joined string is empty.
RECURSIVE ComplianceParts(_, _)
ComplianceParts(plugin, i) ==
    IF i > Len(settings.compliance) THEN << >>
    ELSE (IF Truthy(ComplianceOf(plugin, settings.compliance[i]))
          THEN << << toUpperCase(settings.compliance[i]),
                     ComplianceOf(plugin, settings.compliance[i]) >> >>
          ELSE << >>)
         \o ComplianceParts(plugin, i + 1)

\* The joined string is handed on as it is, also when it is empty.
ComplianceMsg_blank(plugin) ==
    [isNull |-> FALSE, parts |-> ComplianceParts(plugin, 1)]

ComplianceMsg(plugin) ==
    LET parts == ComplianceParts(plugin, 1)
    IN [isNull |-> Len(parts) = 0, parts |-> parts]

(* ---------------------------- remediation ----------------------------- *)

\* A transaction log: per phase, the cells actions[checkId][key] that exist,
\* each with what it holds. A cell is << checkId, key >>.
EmptyFile ==
    [pre_remediate |-> << >>, remediate |-> << >>, post_remediate |-> << >>]

Cell(testQuery, resource) ==
    << testQuery, PropertyKey(resource) >>

\* if (!m[testQuery][resource]) m[testQuery][resource] = {}
InitCell(m, cell) ==
    IF cell \in DOMAIN m THEN m ELSE m @@ (cell :> "{}")

\* m[testQuery][key] = value
WriteCell(m, cell, value) ==
    [c \in DOMAIN m \cup {cell} |-> IF c = cell THEN value ELSE m[c]]

\* actions[testQuery] is an object
HasActions(m, testQuery) ==
    \E c \in DOMAIN m : c[1] = testQuery

initializeFile(file, testQuery, resource) ==
    [pre_remediate  |-> InitCell(file.pre_remediate, Cell(testQuery, resource)),
     post_remediate |-> InitCell(file.post_remediate, Cell(testQuery, resource)),
     remediate      |-> InitCell(file.remediate, Cell(testQuery, resource))]

\* The pre-state is not recorded before the action.
WritePre_none(file, resource) ==
    file

\* remediation_file['pre_remediate']['actions'][pluginName][resource] = {OldRole}
WritePre(file, resource) ==
    [file EXCEPT !.pre_remediate = WriteCell(@, Cell(pluginName, resource), "OldRole")]

\* The record of one plugin.remediate call.
Attempt(r, result, ph, attempted, file, atAction) ==
    [idx |-> r, resource |-> result.resource, status |-> result.status,
     phase |-> ph, attempted |-> attempted, file |-> file,
     fileAtAction |-> atAction]

\* plugin.remediate up to its return (lines 150-209), on the log the engine
\* initialised at lines 336-339. crashed: a TypeError leaves the function.
\* attempted: helpers.remediatePlugin was called; fileAtAction: the log then.
remediate(key, r, result) ==
    LET resource == result.resource
        file0    == initializeFile(EmptyFile, key, resource)
    IN  IF resource = UndefinedResource
        THEN [crashed |-> TRUE,
              attempt |-> Attempt(r, result, "threw", FALSE, file0, EmptyFile)]
        ELSE IF FunctionNameOf(resource) \notin collection.getFunction
        THEN [crashed |-> FALSE,
              attempt |-> Attempt(r, result, "error", FALSE, file0, EmptyFile)]
        ELSE IF ~collection.createRole
        THEN [crashed |-> FALSE,
              attempt |-> Attempt(r, result, "error", FALSE, file0, EmptyFile)]
        ELSE IF ~HasActions(file0.pre_remediate, pluginName)
        THEN [crashed |-> TRUE,
              attempt |-> Attempt(r, result, "threw", FALSE, file0, EmptyFile)]
        ELSE LET file1 == WritePre(file0, resource)
             IN [crashed |-> FALSE,
                 attempt |-> Attempt(r, result, "pending", TRUE, file1, file1)]

\* The callback of helpers.remediatePlugin (lines 209-229).
remediateCallback(a, err) ==
    IF err
    THEN [a EXCEPT !.phase = "error",
                   !.file.remediate =
                       WriteCell(@, << pluginName, Str("error") >>, "err")]
    ELSE [a EXCEPT !.phase = "done",
                   !.file.post_remediate =
                       WriteCell(@, Cell(pluginName, a.resource), "NewRole"),
                   !.file.remediate =
                       WriteCell(@, Cell(pluginName, a.resource), "Action")]

\* Remediation for every result of status FAIL or worse.
RemediationTriggered_any(key, result) ==
    /\ Len(settings.remediate) > 0
    /\ Includes(settings.remediate, key)
    /\ result.status >= 2

\* Lines 332-334: remediation is requested for this result.
RemediationTriggered(key, result) ==
    /\ Len(settings.remediate) > 0
    /\ Includes(settings.remediate, key)
    /\ result.status = 2

(* ------------------------------ postRun ------------------------------- *)

\* The body of the for loop of postRun for results[r] and the ones after it.
\* s is the engine's state; a TypeError out of plugin.remediate ends the loop
\* and the process.
RECURSIVE ProcessResults(_, _, _)
ProcessResults(s, p, r) ==
    LET plugin == plugins[p]
        results == plugin.results
    IN  IF r > Len(results) THEN s
        ELSE IF Suppressed(plugin.key, results[r])
        THEN ProcessResults(s, p, r + 1)
        ELSE LET s1 == [s EXCEPT
                          !.forwarded[p] =
                              Append(@, [idx |-> r, result |-> results[r],
                                         complianceMsg |-> ComplianceMsg(plugin)]),
                          !.maximumStatus = Max(@, results[r].status)]
             IN IF ~RemediationTriggered(plugin.key, results[r])
                THEN ProcessResults(s1, p, r + 1)
                ELSE LET rem == remediate(plugin.key, r, results[r])
                         s2  == [s1 EXCEPT !.rems[p] = Append(@, rem.attempt)]
                     IN IF rem.crashed
                        THEN [s2 EXCEPT !.phase = "crashed", !.pstate[p] = "threw"]
                        ELSE ProcessResults(s2, p, r + 1)

\* The loop over the results runs twice.
postRun_twice(s, p) ==
    IF plugins[p].err
    THEN [s EXCEPT !.pstate[p] = "errored"]
    ELSE LET s1 == ProcessResults(ProcessResults(s, p, 1), p, 1)
         IN IF s1.phase = "crashed" THEN s1
            ELSE [s1 EXCEPT !.pstate[p] = "timer"]

\* A check without results is logged and never signals completion.
postRun_stall(s, p) ==
    IF plugins[p].err \/ Len(plugins[p].results) = 0
    THEN [s EXCEPT !.pstate[p] = "errored"]
    ELSE LET s1 == ProcessResults(s, p, 1)
         IN IF s1.phase = "crashed" THEN s1
            ELSE [s1 EXCEPT !.pstate[p] = "timer"]

\* postRun(err, results) of check p, with what its run calls back.
\* "errored": the error is logged and pluginDone is never called.
\* "timer": setTimeout(function() { pluginDone(err, maximumStatus); }, 0).
postRun(s, p) ==
    IF plugins[p].err
    THEN [s EXCEPT !.pstate[p] = "errored"]
    ELSE IF Len(plugins[p].results) = 0
    THEN [s EXCEPT !.pstate[p] = "timer"]
    ELSE LET s1 == ProcessResults(s, p, 1)
         IN IF s1.phase = "crashed" THEN s1
            ELSE [s1 EXCEPT !.pstate[p] = "timer"]

(* ------------------------- async.mapValuesLimit ----------------------- *)

\* The final callback of mapValuesLimit (lines 371-384), err being null.
Join(s) ==
    [s EXCEPT !.closed = @ + 1,
              !.exitCode = IF settings.exit_code THEN s.maximumStatus ELSE @,
              !.phase = "joined"]

\* require(`./helpers/asl/asl-${aslVersion}.js`) succeeds
AslVersion(plugin) ==
    IF plugin.aslVersion # Undefined THEN plugin.aslVersion
    ELSE aslConfig.current_version

AslLoads(plugin) ==
    AslVersion(plugin) \in aslConfig.available

\* plugin.run(collection, settings, postRun), or aslRunner(..., postRun): the
\* check throws, or calls back before it returns, or calls back later.
Run(s, p) ==
    IF plugins[p].throws
    THEN [s EXCEPT !.pstate[p] = "threw", !.phase = "crashed"]
    ELSE IF plugins[p].sync
    THEN postRun([s EXCEPT !.pstate[p] = "running"], p)
    ELSE [s EXCEPT !.pstate[p] = "running"]

\* The iteratee of mapValuesLimit (lines 295-370), already counted in running.
\* A skipped check completes at once: iterateeCallback only decrements.
\* An ASL runtime that does not load: postRun logs the error, then the call
\* of the undefined aslRunner throws a TypeError.
Iteratee(s, p) ==
    IF Includes(skippedPlugins, KeyOf(p))
    THEN [s EXCEPT !.pstate[p] = "skipped", !.running = @ - 1]
    ELSE IF plugins[p].hasAsl /\ settings.run_asl
    THEN IF AslLoads(plugins[p])
         THEN Run(s, p)
         ELSE [s EXCEPT !.pstate[p] = "errored", !.phase = "crashed"]
    ELSE Run(s, p)

\* replenish with the bound off by one: running <= limit.
RECURSIVE replenish_over(_)
replenish_over(s) ==
    IF s.phase # "executing" THEN s
    ELSE IF ~(s.running <= Limit /\ ~s.iterDone) THEN s
    ELSE IF s.nextElem > Len(plugins)
    THEN LET s1 == [s EXCEPT !.iterDone = TRUE]
         IN IF s1.running <= 0 THEN Join(s1) ELSE s1
    ELSE LET p == s.nextElem
         IN replenish_over(Iteratee([s EXCEPT !.nextElem = @ + 1,
                                              !.running = @ + 1], p))

\* replenish() of async's eachOfLimit.
RECURSIVE replenish(_)
replenish(s) ==
    IF s.phase # "executing" THEN s
    ELSE IF ~(s.running < Limit /\ ~s.iterDone) THEN s
    ELSE IF s.nextElem > Len(plugins)
    THEN LET s1 == [s EXCEPT !.iterDone = TRUE]
         IN IF s1.running <= 0 THEN Join(s1) ELSE s1
    ELSE LET p == s.nextElem
         IN replenish(Iteratee([s EXCEPT !.nextElem = @ + 1, !.running = @ + 1], p))

\* iterateeCallback that joins while one iteratee is still in flight.
iterateeCallback_early(s, p) ==
    LET s1 == [s EXCEPT !.pstate[p] = "done", !.running = @ - 1]
    IN IF s1.iterDone /\ s1.running <= 1 THEN Join(s1) ELSE replenish(s1)

\* iterateeCallback(null) of async's eachOfLimit, called by pluginDone.
iterateeCallback(s, p) ==
    LET s1 == [s EXCEPT !.pstate[p] = "done", !.running = @ - 1]
    IN IF s1.iterDone /\ s1.running <= 0 THEN Join(s1) ELSE replenish(s1)

(* ------------------------------ inputs -------------------------------- *)

Region ==
    "us-east-1"

ArnA ==
    FnArn("func1")

ArnB ==
    FnArn("func2")

LambdaApis ==
    << "Lambda:listFunctions", "Lambda:getFunction", "IAM:getRole" >>

\* A check descriptor, less its key. sync: run calls back before it returns,
\* as the run of both Lambda plugins does. err, results: what run calls back.
BaseCheck ==
    [sync |-> TRUE, throws |-> FALSE, err |-> FALSE, results |-> << >>,
     hasAsl |-> FALSE, aslVersion |-> Undefined,
     hasApis |-> TRUE, apis |-> LambdaApis,
     hasApisRemediate |-> TRUE,
     apis_remediate |-> << "Lambda:getFunction", "IAM:createRole" >>,
     compliance |-> {}, types |-> {"org"}]

Profiles ==
    { [BaseCheck EXCEPT !.results = << Result(0, Region, ArnA),
                                       Result(2, Region, ArnB) >>,
                        !.compliance = { << "hipaa", "HIPAA requires it" >> }],
      [BaseCheck EXCEPT !.sync = FALSE,
                        !.results = << Result(2, Region, ArnA),
                                       Result(2, Region, ArnB) >>,
                        !.compliance = { << "hipaa", "HIPAA requires it" >>,
                                         << "pci", "PCI requires it" >> }],
      [BaseCheck EXCEPT !.sync = FALSE, !.err = TRUE,
                        !.results = << Result(3, Region, ArnA) >>],
      [BaseCheck EXCEPT !.throws = TRUE],
      [BaseCheck EXCEPT !.sync = FALSE],
      [BaseCheck EXCEPT !.sync = FALSE, !.hasAsl = TRUE, !.aslVersion = "9",
                        !.results = << Result(1, Region, ArnA) >>],
      [BaseCheck EXCEPT !.sync = FALSE, !.hasAsl = TRUE,
                        !.results = << Result(1, Region, ArnA) >>],
      [BaseCheck EXCEPT !.results = << Result(3, Undefined, UndefinedResource),
                                       Result(2, Region, UndefinedResource) >>,
                        !.apis = << "Lambda:listFunctions", "IAM:listRoles" >>],
      [BaseCheck EXCEPT !.results = << Result(2, Region, ArnA) >>,
                        !.hasApisRemediate = FALSE, !.apis_remediate = << >>],
      [BaseCheck EXCEPT !.sync = FALSE,
                        !.results = << Result(2, Region, ArnA),
                                       Result(2, Region, ArnA) >>],
      [BaseCheck EXCEPT !.results = << Result(1, Region, ArnA) >>,
                        !.apis = << >>, !.apis_remediate = << >>],
      [BaseCheck EXCEPT !.results = << Result(1, Region, ArnB) >>,
                        !.hasApis = FALSE, !.apis = << >>] }

\* The catalogs of n checks: check i is registered as KeyNames[i].
Catalogs(n, profiles) ==
    { [i \in 1..n |-> [key |-> KeyNames[i]] @@ f[i]] : f \in [1..n -> profiles] }

BaseSettings ==
    [cloud |-> "aws", plugin |-> Undefined, compliance |-> << >>,
     remediate |-> << >>, suppress |-> {}, run_asl |-> FALSE,
     exit_code |-> TRUE]

BaseCloudConfig ==
    [organization |-> FALSE, remediate |-> FALSE]

Rule(check, region, resource) ==
    [check |-> check, region |-> region, resource |-> resource]

\* The settings and cloudConfig of the scans that are checked.
Configs ==
    { [settings |-> BaseSettings, cloudConfig |-> BaseCloudConfig],
      [settings |-> [BaseSettings EXCEPT
                        !.remediate = << "lambdaUniqueRole", "lambdaMultipleRole" >>,
                        !.run_asl = TRUE, !.exit_code = FALSE],
       cloudConfig |-> BaseCloudConfig],
      [settings |-> [BaseSettings EXCEPT
                        !.remediate = << "lambdaUniqueRole" >>,
                        !.suppress = { Rule("lambdaUniqueRole", Region, ArnB) }],
       cloudConfig |-> [BaseCloudConfig EXCEPT !.remediate = TRUE]],
      [settings |-> [BaseSettings EXCEPT
                        !.suppress = { Rule("*", "any", Str("*")),
                                       Rule("lambdaMultipleRole", "*", ArnA) },
                        !.run_asl = TRUE],
       cloudConfig |-> BaseCloudConfig],
      [settings |-> [BaseSettings EXCEPT !.plugin = "lambdaMultipleRole"],
       cloudConfig |-> BaseCloudConfig],
      [settings |-> [BaseSettings EXCEPT !.plugin = "noSuchPlugin"],
       cloudConfig |-> BaseCloudConfig],
      [settings |-> [BaseSettings EXCEPT !.compliance = << "pci", "hipaa" >>],
       cloudConfig |-> BaseCloudConfig],
      [settings |-> [BaseSettings EXCEPT
                        !.cloud = "azure",
                        !.remediate = << "lambdaUniqueRole" >>],
       cloudConfig |-> [BaseCloudConfig EXCEPT !.remediate = TRUE]],
      [settings |-> [BaseSettings EXCEPT
                        !.compliance = << "hipaa" >>,
                        !.remediate = << "lambdaUniqueRole" >>],
       cloudConfig |-> BaseCloudConfig] }

\* helpers/asl/config.json and the asl-<version>.js files that exist.
AslConfigs ==
    { [current_version |-> "1", available |-> {"1"}] }

\* The snapshots the collector may hand over: the functions whose getFunction
\* entry holds a Configuration, and whether the createRole entry holds a Role.
Collections ==
    { [getFunction |-> {"func1", "func2"}, createRole |-> TRUE],
      [getFunction |-> {"func1"}, createRole |-> TRUE],
      [getFunction |-> {"func1", "func2"}, createRole |-> FALSE] }

NoCollection ==
    [getFunction |-> {}, createRole |-> FALSE]

(* --------------------------- the state machine ------------------------ *)

\* The engine's state, as the operators above take and return it.
State ==
    [phase |-> phase, maximumStatus |-> maximumStatus, pstate |-> pstate,
     running |-> running, nextElem |-> nextElem, iterDone |-> iterDone,
     forwarded |-> forwarded, rems |-> rems, closed |-> closed,
     exitCode |-> exitCode]

Become(s) ==
    /\ phase' = s.phase
    /\ maximumStatus' = s.maximumStatus
    /\ pstate' = s.pstate
    /\ running' = s.running
    /\ nextElem' = s.nextElem
    /\ iterDone' = s.iterDone
    /\ forwarded' = s.forwarded
    /\ rems' = s.rems
    /\ closed' = s.closed
    /\ exitCode' = s.exitCode

InitWith(configs, catalogs) ==
    /\ \E c \in configs : settings = c.settings /\ cloudConfig = c.cloudConfig
    /\ aslConfig \in AslConfigs
    /\ plugins \in catalogs
    /\ collection = NoCollection
    /\ phase = "start"
    /\ skippedPlugins = << >>
    /\ apiCalls = << >>
    /\ maximumStatus = 0
    /\ pstate = [p \in DOMAIN plugins |-> "pending"]
    /\ running = 0
    /\ nextElem = 1
    /\ iterDone = FALSE
    /\ forwarded = [p \in DOMAIN plugins |-> << >>]
    /\ rems = [p \in DOMAIN plugins |-> << >>]
    /\ closed = 0
    /\ exitCode = -1

\* No plugin function is called outside the scan.
NoneAlone ==
    /\ cache = << >>
    /\ txlog = EmptyFile
    /\ called = << >>

Init ==
    /\ InitWith(Configs, Catalogs(NumPlugins, Profiles))
    /\ NoneAlone

\* Catalogs larger than Limit: the first k checks call back with an error,
\* the others with one passing and one failing result; the first two checks
\* and the last one call back after run has returned.
ManyCheck(i, k) ==
    [BaseCheck EXCEPT !.sync = ~(i <= 2 \/ i = ManyPlugins),
                      !.err = (i <= k),
                      !.results = << Result(0, Region, ArnB),
                                     Result(2, Region, ArnA) >>]

ManyCatalogs ==
    { [i \in 1..ManyPlugins |-> [key |-> KeyNames[i]] @@ ManyCheck(i, k)] :
        k \in 0..ManyPlugins }

ManyConfigs ==
    { c \in Configs : c.settings.plugin = Undefined
                      /\ c.settings.compliance = << >>
                      /\ c.settings.suppress = {}
                      /\ ~c.settings.run_asl }

InitMany ==
    /\ InitWith(ManyConfigs, ManyCatalogs)
    /\ NoneAlone

\* The engine goes on to the collector with an empty list of calls.
AfterPlanning_collects(plan) ==
    IF plan.crashed THEN "crashed" ELSE "collecting"

\* if (!apiCalls.length) return console.log('ERROR: Nothing to collect.')
AfterPlanning(plan) ==
    IF plan.crashed THEN "crashed"
    ELSE IF Len(plan.apiCalls) = 0 THEN "nothing"
    ELSE "collecting"

\* engine(cloudConfig, settings) up to the call of the collector (162-279).
Engine ==
    /\ phase = "start"
    /\ IF settings.plugin # Undefined
          /\ ~\E p \in Idx : KeyOf(p) = settings.plugin
       THEN /\ phase' = "invalid"
            /\ UNCHANGED << skippedPlugins, apiCalls >>
       ELSE LET plan == Planner([skipped |-> << >>, apiCalls |-> << >>,
                                 crashed |-> FALSE], 1)
            IN /\ skippedPlugins' = plan.skipped
               /\ apiCalls' = plan.apiCalls
               /\ phase' = AfterPlanning(plan)
    /\ UNCHANGED << alone, inputs, collection, maximumStatus, pstate, running,
                    nextElem, iterDone, forwarded, rems, closed, exitCode >>

\* executePlugins(cloudRemediateConfig): mapValuesLimit starts to replenish.
executePlugins(s) ==
    replenish([s EXCEPT !.phase = "executing"])

\* The collector's callback (284-395). With remediation configured, runAuth
\* logs in first under azure and calls back at once otherwise.
CollectorCallback ==
    /\ phase = "collecting"
    /\ \/ /\ phase' = "collectFailed"
          /\ UNCHANGED << collection, maximumStatus, pstate, running, nextElem,
                          iterDone, forwarded, rems, closed, exitCode >>
       \/ \E c \in Collections :
            /\ collection' = c
            /\ IF /\ Len(settings.remediate) > 0
                  /\ cloudConfig.remediate
                  /\ settings.cloud = "azure"
               THEN Become([State EXCEPT !.phase = "auth"])
               ELSE Become(executePlugins(State))
    /\ UNCHANGED << alone, inputs, skippedPlugins, apiCalls >>

\* The callback of azureHelper.login (120-124, 388-391).
AuthCallback ==
    /\ phase = "auth"
    /\ \/ Become([State EXCEPT !.phase = "authFailed"])
       \/ Become(executePlugins(State))
    /\ UNCHANGED << alone, inputs, collection, skippedPlugins, apiCalls >>

\* postRun empties the snapshot.
PostRunCallback_writes(p) ==
    /\ phase = "executing"
    /\ pstate[p] = "running"
    /\ Become(postRun(State, p))
    /\ collection' = NoCollection
    /\ UNCHANGED << alone, inputs, skippedPlugins, apiCalls >>

\* A check that did not call back from within run calls back.
PostRunCallback(p) ==
    /\ phase = "executing"
    /\ pstate[p] = "running"
    /\ Become(postRun(State, p))
    /\ UNCHANGED << alone, inputs, collection, skippedPlugins, apiCalls >>

\* The timer set at line 350 fires: pluginDone(err, maximumStatus).
PluginDone(p) ==
    /\ phase = "executing"
    /\ pstate[p] = "timer"
    /\ Become(iterateeCallback(State, p))
    /\ UNCHANGED << alone, inputs, collection, skippedPlugins, apiCalls >>

\* The callback of helpers.remediatePlugin raises the verdict when the
\* remediation has failed.
RemediateCallback_verdict(p, j) ==
    /\ phase \in {"executing", "joined"}
    /\ rems[p][j].phase = "pending"
    /\ \E err \in BOOLEAN :
          /\ rems' = [rems EXCEPT ![p][j] = remediateCallback(@, err)]
          /\ maximumStatus' = IF err THEN Max(maximumStatus, 3) ELSE maximumStatus
    /\ UNCHANGED << alone, inputs, collection, skippedPlugins, apiCalls, phase,
                    pstate, running, nextElem, iterDone, forwarded, closed,
                    exitCode >>

\* helpers.remediatePlugin calls back, with or without an error.
RemediateCallback(p, j) ==
    /\ phase \in {"executing", "joined"}
    /\ rems[p][j].phase = "pending"
    /\ \E err \in BOOLEAN :
          rems' = [rems EXCEPT ![p][j] = remediateCallback(@, err)]
    /\ UNCHANGED << alone, inputs, collection, skippedPlugins, apiCalls, phase,
                    maximumStatus, pstate, running, nextElem, iterDone,
                    forwarded, closed, exitCode >>

Next ==
    \/ Engine
    \/ CollectorCallback
    \/ AuthCallback
    \/ \E p \in Idx : PostRunCallback(p)
    \/ \E p \in Idx : PluginDone(p)
    \/ \E p \in Idx : \E j \in DOMAIN rems[p] : RemediateCallback(p, j)

Spec ==
    Init /\ [][Next]_vars

SpecMany ==
    InitMany /\ [][Next]_vars

\* Scans of a GitHub account: of an organization and of a user, without and
\* with an id filter and a remediation. The checks declare the account types
\* they apply to.
GithubProfiles ==
    { [BaseCheck EXCEPT !.types = {"org"},
                        !.results = << Result(0, Region, ArnA) >>],
      [BaseCheck EXCEPT !.types = {"user"}, !.sync = FALSE,
                        !.results = << Result(2, Region, ArnA) >>],
      [BaseCheck EXCEPT !.types = {"org", "user"}, !.sync = FALSE,
                        !.results = << Result(1, Region, ArnB),
                                       Result(2, Region, ArnA) >>] }

GithubSettings ==
    [BaseSettings EXCEPT !.cloud = "github"]

GithubConfigs ==
    { [settings |-> GithubSettings,
       cloudConfig |-> [BaseCloudConfig EXCEPT !.organization = TRUE]],
      [settings |-> GithubSettings,
       cloudConfig |-> BaseCloudConfig],
      [settings |-> [GithubSettings EXCEPT !.plugin = "lambdaMultipleRole"],
       cloudConfig |-> [BaseCloudConfig EXCEPT !.organization = TRUE]],
      [settings |-> [GithubSettings EXCEPT
                        !.remediate = << "lambdaUniqueRole", "lambdaMultipleRole" >>],
       cloudConfig |-> [BaseCloudConfig EXCEPT !.remediate = TRUE]] }

InitGithub ==
    /\ InitWith(GithubConfigs, Catalogs(NumPlugins, GithubProfiles))
    /\ NoneAlone

\* runAuth calls back at once under github (120-124): the collector's callback
\* goes on to executePlugins.
NextGithub ==
    \/ Engine
    \/ CollectorCallback
    \/ \E p \in Idx : PostRunCallback(p)
    \/ \E p \in Idx : PluginDone(p)
    \/ \E p \in Idx : \E j \in DOMAIN rems[p] : RemediateCallback(p, j)

SpecGithub ==
    InitGithub /\ [][NextGithub]_vars

(* ---------------------- the Lambda plugins, alone --------------------- *)

\* The functions a region lists, at most.
NumFunctions ==
    2

FnNames ==
    << "func1", "func2", "func3", "func4" >>

\* helpers.regions(settings).lambda
Regions ==
    << "us-east-1", "us-west-2" >>

\* lambdaConfig.Role || null
Null ==
    << >>

\* Role names and role ARNs, as the pieces endsWith can tell apart.
ExistingRole ==
    << "ExistingRole" >>

MyExistingRole ==
    << "My", "ExistingRole" >>

RoleArn(roleName) ==
    << "arn:aws:iam::123:role", "/" >> \o roleName

\* String.prototype.endsWith
endsWith(str, suffix) ==
    /\ Len(suffix) <= Len(str)
    /\ SubSeq(str, Len(str) - Len(suffix) + 1, Len(str)) = suffix

\* The message of a result: its wording and the role ARN it names, if any.
Message(text, about) ==
    [text |-> text, about |-> about]

\* helpers.addResult(results, status, message, region, resource)
addResult(results, status, message, region, resource) ==
    Append(results, [status |-> status, message |-> message,
                     region |-> region, resource |-> resource])

\* roleToFunctions[assignedRoleArn].push(FunctionName), the keys kept in the
\* order of their insertion.
PushRole(roleToFunctions, role, name) ==
    IF \E i \in DOMAIN roleToFunctions : roleToFunctions[i].role = role
    THEN [i \in DOMAIN roleToFunctions |->
             IF roleToFunctions[i].role = role
             THEN [roleToFunctions[i] EXCEPT !.functions = Append(@, name)]
             ELSE roleToFunctions[i]]
    ELSE Append(roleToFunctions, [role |-> role, functions |-> << name >>])

\* A function without a role is given the role ExistingRole.
RoleOrNull_default(Role) ==
    IF Role = Null THEN RoleArn(ExistingRole) ELSE Role

\* lambdaConfig.Role || null
RoleOrNull(Role) ==
    IF Role = Null THEN Null ELSE Role

\* Every role counts as shared.
SharedStatus_any(functionsUsingRole) ==
    2

\* if (functionsUsingRole.length > 1) 2 else 0
SharedStatus(functionsUsingRole) ==
    IF Len(functionsUsingRole) > 1 THEN 2 ELSE 0

\* lambdaMultipleRole.run: one turn of async.each(listFunctions.data, ...).
MultipleRoleFunction(acc, c, region, lambdaFunction) ==
    IF lambdaFunction.FunctionName = Undefined THEN acc
    ELSE LET getFunction == c[region].getFunction[lambdaFunction.FunctionName]
             assignedRoleArn == RoleOrNull(getFunction.Role)
         IN IF ~getFunction.ok
            THEN [acc EXCEPT !.results =
                     addResult(@, 3, Message("Unable to get Lambda function details", Null),
                               region, lambdaFunction.FunctionArn)]
            ELSE IF assignedRoleArn = Null
            THEN [acc EXCEPT !.results =
                     addResult(@, 3, Message("has NO assigned IAM role", Null),
                               region, lambdaFunction.FunctionArn)]
            ELSE LET acc1 == [acc EXCEPT !.roleToFunctions =
                                 PushRole(@, assignedRoleArn, lambdaFunction.FunctionName)]
                 IN IF assignedRoleArn \notin c[region].getRole
                    THEN [acc1 EXCEPT !.results =
                             addResult(@, 2,
                                       Message("Assigned IAM role not found or inaccessible",
                                               assignedRoleArn),
                                       region, lambdaFunction.FunctionArn)]
                    ELSE acc1

RECURSIVE MultipleRoleEach(_, _, _, _, _)
MultipleRoleEach(acc, c, region, data, i) ==
    IF i > Len(data) THEN acc
    ELSE MultipleRoleEach(MultipleRoleFunction(acc, c, region, data[i]),
                          c, region, data, i + 1)

\* for (var roleArn in roleToFunctions): one region-level result per role.
RECURSIVE MultipleRoleRoles(_, _, _, _)
MultipleRoleRoles(results, roleToFunctions, region, i) ==
    IF i > Len(roleToFunctions) THEN results
    ELSE LET functionsUsingRole == roleToFunctions[i].functions
             status == SharedStatus(functionsUsingRole)
         IN MultipleRoleRoles(
               addResult(results, status,
                         Message(IF status = 2
                                 THEN "is shared by multiple Lambda functions"
                                 ELSE "is uniquely assigned to Lambda function",
                                 roleToFunctions[i].role),
                         region, UndefinedResource),
               roleToFunctions, region, i + 1)

\* lambdaMultipleRole.run: one turn of async.each(regions.lambda, ...).
MultipleRoleRegion(results, c, region) ==
    LET listFunctions == c[region].listFunctions
    IN IF listFunctions.state = "absent" THEN results
       ELSE IF listFunctions.state \in {"err", "nodata"}
       THEN addResult(results, 3, Message("Unable to query Lambda functions", Null),
                      region, UndefinedResource)
       ELSE IF Len(listFunctions.data) = 0
       THEN addResult(results, 0, Message("No Lambda functions found. Pass.", Null),
                      region, UndefinedResource)
       ELSE LET acc == MultipleRoleEach([results |-> results,
                                         roleToFunctions |-> << >>],
                                        c, region, listFunctions.data, 1)
            IN MultipleRoleRoles(acc.results, acc.roleToFunctions, region, 1)

\* lambdaMultipleRole.run: the results it calls back with.
RECURSIVE MultipleRoleRun(_, _, _)
MultipleRoleRun(results, c, i) ==
    IF i > Len(Regions) THEN results
    ELSE MultipleRoleRun(MultipleRoleRegion(results, c, Regions[i]), c, i + 1)

\* listRoles.data.find(r => assignedRoleArn.endsWith(r.RoleName)): the
\* position of the first match, 0 for undefined.
Find(data, assignedRoleArn) ==
    IF \E i \in DOMAIN data : endsWith(assignedRoleArn, data[i].RoleName)
    THEN CHOOSE i \in DOMAIN data :
            /\ endsWith(assignedRoleArn, data[i].RoleName)
            /\ \A j \in 1..(i - 1) : ~endsWith(assignedRoleArn, data[j].RoleName)
    ELSE 0

\* lambdaMissingExecutionRole.run: one turn of async.each(listFunctions.data, ...).
MissingRoleFunction(results, c, region, lambdaFunction) ==
    IF lambdaFunction.FunctionName = Undefined THEN results
    ELSE LET getFunction == c[region].getFunction[lambdaFunction.FunctionName]
             assignedRoleArn == RoleOrNull(getFunction.Role)
             listRoles == c[region].listRoles
             roleObj == Find(listRoles.data, assignedRoleArn)
         IN IF ~getFunction.ok
            THEN addResult(results, 3,
                           Message("Unable to get Lambda function details", Null),
                           region, lambdaFunction.FunctionArn)
            ELSE IF assignedRoleArn = Null
            THEN addResult(results, 3, Message("has NO assigned IAM role", Null),
                           region, lambdaFunction.FunctionArn)
            ELSE IF roleObj # 0
            THEN IF listRoles.data[roleObj].RoleName \notin c[region].getRole
                 THEN addResult(results, 2,
                                Message("Assigned IAM role exists but unable to fetch details",
                                        assignedRoleArn),
                                region, lambdaFunction.FunctionArn)
                 ELSE addResult(results, 0,
                                Message("Assigned IAM role exists and retrieved",
                                        assignedRoleArn),
                                region, lambdaFunction.FunctionArn)
            ELSE addResult(results, 2,
                           Message("Assigned IAM role NOT found", assignedRoleArn),
                           region, lambdaFunction.FunctionArn)

RECURSIVE MissingRoleEach(_, _, _, _, _)
MissingRoleEach(results, c, region, data, i) ==
    IF i > Len(data) THEN results
    ELSE MissingRoleEach(MissingRoleFunction(results, c, region, data[i]),
                         c, region, data, i + 1)

\* lambdaMissingExecutionRole.run: one turn of async.each(regions.lambda, ...).
MissingRoleRegion(results, c, region) ==
    LET listFunctions == c[region].listFunctions
        listRoles == c[region].listRoles
    IN IF listFunctions.state = "absent" THEN results
       ELSE IF listFunctions.state \in {"err", "nodata"}
       THEN addResult(results, 3, Message("Unable to query Lambda functions", Null),
                      region, UndefinedResource)
       ELSE IF Len(listFunctions.data) = 0
       THEN addResult(results, 0, Message("No Lambda functions found. Pass.", Null),
                      region, UndefinedResource)
       ELSE IF listRoles.state # "data" \/ Len(listRoles.data) = 0
       THEN addResult(results, 3, Message("Unable to query IAM roles", Null),
                      region, UndefinedResource)
       ELSE MissingRoleEach(results, c, region, listFunctions.data, 1)

\* The check stops after the first region.
MissingRoleRun_first(results, c, i) ==
    MissingRoleRegion(results, c, Regions[1])

\* lambdaMissingExecutionRole.run: the results it calls back with.
RECURSIVE MissingRoleRun(_, _, _)
MissingRoleRun(results, c, i) ==
    IF i > Len(Regions) THEN results
    ELSE MissingRoleRun(MissingRoleRegion(results, c, Regions[i]), c, i + 1)

\* The snapshots the plugins are called with. A region's entry: what
\* listFunctions and listRoles hold (absent, an error, neither an error nor
\* data, or data), the
\* getFunction entry of each function (ok: it holds a Configuration), and the
\* keys under which getRole holds a Role.
LambdaFunction(i) ==
    [FunctionName |-> FnNames[i], FunctionArn |-> FnArn(FnNames[i])]

Nameless ==
    [FunctionName |-> Undefined, FunctionArn |-> FnArn("anonymous")]

Listed(k) ==
    [state |-> "data", data |-> [i \in 1..k |-> LambdaFunction(i)]]

NotListed(state) ==
    [state |-> state, data |-> << >>]

Details ==
    { [ok |-> FALSE, Role |-> Null],
      [ok |-> TRUE, Role |-> Null],
      [ok |-> TRUE, Role |-> RoleArn(ExistingRole)],
      [ok |-> TRUE, Role |-> RoleArn(MyExistingRole)] }

FnNameSet ==
    { FnNames[i] : i \in DOMAIN FnNames }

GetFunctions(k) ==
    { [name \in FnNameSet |->
          IF \E i \in 1..k : FnNames[i] = name
          THEN d[CHOOSE i \in 1..k : FnNames[i] = name]
          ELSE [ok |-> FALSE, Role |-> Null]] : d \in [1..k -> Details] }

ListRolesOf(names) ==
    [state |-> "data", data |-> [i \in DOMAIN names |-> [RoleName |-> names[i]]]]

ListRoles ==
    { NotListed("absent"), NotListed("err"), NotListed("nodata"),
      ListRolesOf(<< >>), ListRolesOf(<< ExistingRole >>),
      ListRolesOf(<< ExistingRole, MyExistingRole >>) }

GetRoles ==
    { {},
      { ExistingRole, RoleArn(ExistingRole) },
      { ExistingRole, RoleArn(ExistingRole),
        MyExistingRole, RoleArn(MyExistingRole) } }

RegionEntry(listFunctions, getFunction, listRoles, getRole) ==
    [listFunctions |-> listFunctions, getFunction |-> getFunction,
     listRoles |-> listRoles, getRole |-> getRole]

Unlisted(state) ==
    RegionEntry(NotListed(state), CHOOSE g \in GetFunctions(0) : TRUE,
                NotListed("absent"), {})

FirstRegion ==
    { Unlisted("absent"), Unlisted("err"), Unlisted("nodata") }
    \cup UNION { { RegionEntry(Listed(k), g, lr, gr) :
                     g \in GetFunctions(k), lr \in ListRoles, gr \in GetRoles } :
                 k \in 0..NumFunctions }

\* The other region: nothing, an error, or an unnamed function and a function
\* of its own with the role ExistingRole.
OtherRegion ==
    { Unlisted("absent"), Unlisted("err"),
      RegionEntry([state |-> "data",
                   data |-> << Nameless, LambdaFunction(Len(FnNames)) >>],
                  [name \in FnNameSet |->
                      IF name = FnNames[Len(FnNames)]
                      THEN [ok |-> TRUE, Role |-> RoleArn(ExistingRole)]
                      ELSE [ok |-> FALSE, Role |-> Null]],
                  ListRolesOf(<< ExistingRole >>),
                  { ExistingRole, RoleArn(ExistingRole) }) }

Caches ==
    { [r \in { Regions[i] : i \in DOMAIN Regions } |->
          IF r = Regions[1] THEN e[1] ELSE e[2]] : e \in FirstRegion \X OtherRegion }

\* The transaction logs rollback is called with: an empty one, and the one a
\* successful remediation leaves.
TxLogs ==
    { EmptyFile,
      remediateCallback(
          Attempt(1, Result(2, Region, ArnA), "pending", TRUE,
                  WritePre(initializeFile(EmptyFile, pluginName, ArnA), ArnA),
                  WritePre(initializeFile(EmptyFile, pluginName, ArnA), ArnA)),
          FALSE).file }

\* One callback, as the caller sees it: the number of arguments, the error
\* and the results.
Callback(fn, argc, err, results) ==
    [fn |-> fn, argc |-> argc, err |-> err, results |-> results]

WasCalled(fn) ==
    \E i \in DOMAIN called : called[i].fn = fn

scan ==
    << settings, cloudConfig, aslConfig, plugins, collection, phase,
       skippedPlugins, apiCalls, maximumStatus, pstate, running, nextElem,
       iterDone, forwarded, rems, closed, exitCode >>

InitPlugin ==
    /\ InitWith({ [settings |-> BaseSettings, cloudConfig |-> BaseCloudConfig] },
                Catalogs(1, { BaseCheck }))
    /\ cache \in Caches
    /\ txlog \in TxLogs
    /\ called = << >>

\* lambdaMultipleRole.run(cache, settings, callback): callback(null, results, source)
RunMultipleRole ==
    /\ ~WasCalled("lambdaMultipleRole.run")
    /\ called' = Append(called, Callback("lambdaMultipleRole.run", 3, "null",
                                         MultipleRoleRun(<< >>, cache, 1)))
    /\ UNCHANGED << scan, cache, txlog >>

\* lambdaMissingExecutionRole.run(cache, settings, callback)
RunMissingExecutionRole ==
    /\ ~WasCalled("lambdaMissingExecutionRole.run")
    /\ called' = Append(called, Callback("lambdaMissingExecutionRole.run", 3, "null",
                                         MissingRoleRun(<< >>, cache, 1)))
    /\ UNCHANGED << scan, cache, txlog >>

\* rollback(config, cache, settings, resource, callback): two console.log
\* calls, then callback().
Rollback ==
    /\ ~WasCalled("rollback")
    /\ called' = Append(called, Callback("rollback", 0, Undefined, << >>))
    /\ UNCHANGED << scan, cache, txlog >>

NextPlugin ==
    \/ RunMultipleRole
    \/ RunMissingExecutionRole
    \/ Rollback

SpecPlugin ==
    InitPlugin /\ [][NextPlugin]_vars

(* ------------------------------- claims ------------------------------- *)

\* The largest member of a set of statuses, 0 for the empty set.
SetMax(S) ==
    IF S = {} THEN 0 ELSE CHOOSE m \in S : \A x \in S : x <= m

\* Result r of check p matches the suppression filter, as the claims word it:
\* on the key checkId:region:resource with 'any' for an absent region or
\* resource.
IsSuppressed(p, r) ==
    LET res == plugins[p].results[r]
        reg == IF res.region = Undefined THEN "any" ELSE res.region
        rsc == IF res.resource = UndefinedResource THEN Str("any") ELSE res.resource
    IN \E rule \in settings.suppress :
          /\ rule.check \in {"*", KeyOf(p)}
          /\ rule.region \in {"*", reg}
          /\ rule.resource \in {Str("*"), rsc}

Unsuppressed(p) ==
    { r \in DOMAIN plugins[p].results : ~IsSuppressed(p, r) }

\* The checks whose postRun has processed their results.
Processed ==
    { p \in Idx : pstate[p] \in {"timer", "done"} }

Selected ==
    { p \in Idx : ~Includes(skippedPlugins, KeyOf(p)) }

\* The checks that were started and have not signalled completion.
InFlight ==
    { p \in Idx : pstate[p] \in {"running", "timer", "errored", "threw"} }

\* No check that was started can take a step any more.
NothingMoves ==
    \A p \in Idx : pstate[p] \notin {"running", "timer"}

\* The plugin.remediate calls made so far, each as << check, position >>.
Attempts ==
    UNION { { << p, j >> : j \in DOMAIN rems[p] } : p \in Idx }

AttemptOf(pj) ==
    rems[pj[1]][pj[2]]

\* C1: when the join callback of executePlugins runs, maximumStatus is the
\* largest status among the results of the executed checks that the
\* suppression filter does not match, and 0 when there is no such result.
C1_VerdictIsMaxOfUnsuppressed ==
    phase = "joined" =>
        maximumStatus =
            SetMax(UNION { { plugins[p].results[r].status : r \in Unsuppressed(p) } :
                           p \in { q \in Idx : pstate[q] = "done" } })

\* A scan has joined with a verdict below the status of a suppressed result.
C1_Witness ==
    /\ phase = "joined"
    /\ \E p \in Idx : /\ pstate[p] = "done"
                      /\ Unsuppressed(p) # {}
                      /\ \E r \in DOMAIN plugins[p].results :
                            /\ IsSuppressed(p, r)
                            /\ plugins[p].results[r].status > maximumStatus

\* C2 (as claimed): checks that fail never keep another selected check from
\* being dispatched: whenever the scan is executing and no started check can
\* take a step, every check has been dispatched.
C2_FailingChecksBlockNobody ==
    (phase = "executing" /\ NothingMoves) =>
        \A q \in Idx : pstate[q] # "pending"

\* C3 (as claimed): once execution has begun the join is reached whatever the
\* checks do: the scan is never left executing with no check able to take a
\* step.
C3_JoinAlwaysReached ==
    ~(phase = "executing" /\ NothingMoves)

\* C4: when the join callback runs, every selected check has completed and its
\* postRun has forwarded every result the suppression filter does not match.
C4_JoinAfterEveryCheck ==
    phase = "joined" =>
        \A p \in Selected :
            /\ pstate[p] = "done"
            /\ { forwarded[p][i].idx : i \in DOMAIN forwarded[p] } = Unsuppressed(p)

\* A scan has joined after a check that called back late forwarded two results.
C4_Witness ==
    /\ phase = "joined"
    /\ \E p \in Selected : ~plugins[p].sync /\ Len(forwarded[p]) >= 2
    /\ Cardinality(Selected) >= 2

\* C5: at most Limit checks are started and have not signalled completion.
C5_AtMostLimitInFlight ==
    Cardinality(InFlight) <= Limit

\* A check has completed and Limit checks are in flight again.
C5_Witness ==
    /\ Cardinality(InFlight) = Limit
    /\ \E p \in Idx : pstate[p] = "done"

\* C6 (as claimed): a check whose alternate runtime cannot be loaded is logged,
\* contributes no result, counts as completed, and the scan goes on.
C6_UnloadableRuntimeIsFailSoft ==
    \A p \in Selected :
        (plugins[p].hasAsl /\ settings.run_asl /\ ~AslLoads(plugins[p])
         /\ pstate[p] # "pending")
        => /\ phase # "crashed"
           /\ forwarded[p] = << >>
           /\ pstate[p] \in {"timer", "done"}

\* C7: a result the suppression filter matches is not forwarded, triggers no
\* remediation and does not raise maximumStatus: the verdict is the largest
\* status among the other results of the checks processed so far, and a check
\* that was processed has forwarded exactly its other results, in order.
C7_SuppressedHasNoEffect ==
    /\ \A p \in Idx : \A i \in DOMAIN forwarded[p] :
          ~IsSuppressed(p, forwarded[p][i].idx)
    /\ \A pj \in Attempts : ~IsSuppressed(pj[1], AttemptOf(pj).idx)
    /\ maximumStatus <=
          SetMax(UNION { { plugins[p].results[r].status : r \in Unsuppressed(p) } :
                         p \in Idx })
    /\ phase # "crashed" =>
          maximumStatus =
             SetMax(UNION { { plugins[p].results[r].status : r \in Unsuppressed(p) } :
                            p \in Processed })
    /\ \A p \in Processed :
          /\ Len(forwarded[p]) = Cardinality(Unsuppressed(p))
          /\ \A i \in DOMAIN forwarded[p] :
                /\ forwarded[p][i].result = plugins[p].results[forwarded[p][i].idx]
                /\ \A k \in DOMAIN forwarded[p] :
                      i < k => forwarded[p][i].idx < forwarded[p][k].idx

\* A check opted into remediation was processed with a suppressed FAIL result
\* and the verdict stayed below FAIL.
C7_Witness ==
    /\ maximumStatus < 2
    /\ \E p \in Processed :
          /\ RemediateRequested(KeyOf(p))
          /\ forwarded[p] # << >>
          /\ \E r \in DOMAIN plugins[p].results :
                IsSuppressed(p, r) /\ plugins[p].results[r].status = 2

\* C8: plugin.remediate is called only for a result of status 2 of a check
\* whose id is in settings.remediate.
C8_RemediateOnlyFailOfOptedIn ==
    \A pj \in Attempts :
        /\ AttemptOf(pj).status = 2
        /\ plugins[pj[1]].results[AttemptOf(pj).idx].status = 2
        /\ \E i \in DOMAIN settings.remediate : settings.remediate[i] = KeyOf(pj[1])

\* A check forwarded a passing result and a failing one, and remediate was
\* called once, for the failing one; another check, not opted in, forwarded a
\* failing result and remediate was not called.
C8_Witness ==
    /\ \E p \in Idx :
          /\ Len(rems[p]) = 1
          /\ \E i \in DOMAIN forwarded[p] : forwarded[p][i].result.status = 0
    /\ \E q \in Idx :
          /\ rems[q] = << >>
          /\ \E i \in DOMAIN forwarded[q] : forwarded[q][i].result.status = 2

\* C9: whenever the provider action of a remediation is attempted, the cell
\* pre_remediate.actions[checkId][resource] held the pre-state when it was
\* attempted, and holds it from then on, also after the action has failed.
C9_PreStateBeforeAction ==
    \A pj \in Attempts :
        LET a == AttemptOf(pj)
            c == << KeyOf(pj[1]), a.resource >>
        IN a.attempted =>
              /\ c \in DOMAIN a.fileAtAction.pre_remediate
              /\ a.fileAtAction.pre_remediate[c] = "OldRole"
              /\ c \in DOMAIN a.file.pre_remediate
              /\ a.file.pre_remediate[c] = "OldRole"

\* The provider action of a remediation has failed and the pre-state is there.
C9_Witness ==
    \E pj \in Attempts :
        LET a == AttemptOf(pj)
        IN /\ a.attempted
           /\ a.phase = "error"
           /\ a.file.pre_remediate[<< KeyOf(pj[1]), a.resource >>] = "OldRole"

\* C10 (as claimed): a remediate call that succeeded has recorded the
\* after-facts and the summary under [checkId][resource]; one that ended with
\* an error has recorded it under [checkId]['error'] and no after-facts.
C10_OutcomeRecorded ==
    \A pj \in Attempts :
        LET a   == AttemptOf(pj)
            key == KeyOf(pj[1])
            c   == << key, a.resource >>
        IN /\ a.phase = "done" =>
                /\ c \in DOMAIN a.file.post_remediate
                /\ a.file.post_remediate[c] = "NewRole"
                /\ c \in DOMAIN a.file.remediate
                /\ a.file.remediate[c] = "Action"
           /\ a.phase = "error" =>
                /\ << key, Str("error") >> \in DOMAIN a.file.remediate
                /\ c \in DOMAIN a.file.post_remediate =>
                      a.file.post_remediate[c] = "{}"

\* The transaction logs of the scan: one per plugin.remediate call.
Logs ==
    { AttemptOf(pj).file : pj \in Attempts }

\* The exception that ended the process left the planner: the collector was
\* never called.
PlanningCrashed ==
    phase = "crashed" /\ collection = NoCollection

\* The engine went past the check of settings.plugin.
Planned ==
    phase \notin {"start", "invalid"}

\* C11 (as claimed): when one remediation of a check has failed and another
\* one of the same check has succeeded, the log holds the error of the first
\* under remediate.actions[checkId]['error'] and the pre_remediate, remediate
\* and post_remediate data of the second.
C11_LogHoldsErrorAndSuccess ==
    \A pj \in Attempts : \A qk \in Attempts :
        LET a   == AttemptOf(pj)
            b   == AttemptOf(qk)
            key == KeyOf(pj[1])
            c   == << key, b.resource >>
        IN (pj[1] = qk[1] /\ a.phase = "error" /\ b.phase = "done") =>
              \E log \in Logs :
                  /\ << key, Str("error") >> \in DOMAIN log.remediate
                  /\ log.remediate[<< key, Str("error") >>] = "err"
                  /\ c \in DOMAIN log.pre_remediate
                  /\ log.pre_remediate[c] = "OldRole"
                  /\ c \in DOMAIN log.remediate
                  /\ log.remediate[c] = "Action"
                  /\ c \in DOMAIN log.post_remediate
                  /\ log.post_remediate[c] = "NewRole"

\* C12 (as claimed): no two remediation attempts are in flight at one time for
\* the same (checkId, resource) cell.
C12_OneAttemptInFlightPerCell ==
    \A pj \in Attempts : \A qk \in Attempts :
        (/\ pj # qk
         /\ pj[1] = qk[1]
         /\ AttemptOf(pj).resource = AttemptOf(qk).resource
         /\ AttemptOf(pj).phase = "pending")
        => AttemptOf(qk).phase # "pending"

\* C13: a callback of helpers.remediatePlugin changes neither the verdict nor
\* the exit code nor the progress of the scan, and the scan is never left
\* executing once every check has signalled completion, whatever remediation
\* is still running.
C13_JoinIgnoresRemediation ==
    [][ /\ (\E pj \in Attempts :
               /\ AttemptOf(pj).phase = "pending"
               /\ rems'[pj[1]][pj[2]].phase # "pending")
           => UNCHANGED << phase, maximumStatus, exitCode, closed, pstate,
                           running, forwarded >>
        /\ phase' = "executing"
           => \E p \in Idx : pstate'[p] \notin {"done", "skipped"} ]_vars

\* The scan has joined and set the exit code while one remediation was still
\* running and another one had failed.
C13_Witness ==
    /\ phase = "joined"
    /\ exitCode = 2
    /\ \E pj \in Attempts : AttemptOf(pj).phase = "pending"
    /\ \E pj \in Attempts : AttemptOf(pj).phase = "error" /\ AttemptOf(pj).attempted

\* C14 (as claimed): after a remediation attempt has failed, by an error passed
\* to its callback or by an exception thrown inside plugin.remediate, the scan
\* goes on: every unsuppressed result of the check has been forwarded and the
\* check signals completion.
C14_RemediationFailureContained ==
    \A pj \in Attempts :
        AttemptOf(pj).phase \in {"error", "threw"} =>
            /\ phase # "crashed"
            /\ pstate[pj[1]] \in {"timer", "done"}
            /\ { forwarded[pj[1]][i].idx : i \in DOMAIN forwarded[pj[1]] }
                  = Unsuppressed(pj[1])

\* C15 (as claimed): once two remediation attempts on different resources have
\* succeeded, one transaction log contains the after-facts of both.
C15_OneLogForTheScan ==
    \A pj \in Attempts : \A qk \in Attempts :
        LET a == AttemptOf(pj)
            b == AttemptOf(qk)
        IN (a.phase = "done" /\ b.phase = "done" /\ a.resource # b.resource) =>
              \E log \in Logs :
                  /\ \E c \in DOMAIN log.post_remediate :
                        c[2] = a.resource /\ log.post_remediate[c] = "NewRole"
                  /\ \E c \in DOMAIN log.post_remediate :
                        c[2] = b.resource /\ log.post_remediate[c] = "NewRole"

\* The check's id is in settings.remediate.
OptedIn(p) ==
    \E i \in DOMAIN settings.remediate : settings.remediate[i] = KeyOf(p)

\* The identifiers check p asks the planner for.
Wanted(p) ==
    { plugins[p].apis[i] : i \in DOMAIN plugins[p].apis }
    \cup (IF OptedIn(p)
          THEN { plugins[p].apis_remediate[i] : i \in DOMAIN plugins[p].apis_remediate }
          ELSE {})

ApiCallSet ==
    { apiCalls[i] : i \in DOMAIN apiCalls }

C17_PlanIsDeduplicatedUnion ==
    /\ \A i \in DOMAIN apiCalls : \A j \in DOMAIN apiCalls :
          apiCalls[i] = apiCalls[j] => i = j
    /\ ApiCallSet \subseteq UNION { Wanted(p) : p \in Selected }
    /\ (Planned /\ ~PlanningCrashed) =>
          ApiCallSet = UNION { Wanted(p) : p \in Selected }

\* The planner has skipped a check whose api is not collected, and has added
\* the apis_remediate of a selected check that name an api it had already.
C17_Witness ==
    /\ phase = "collecting"
    /\ \E p \in Idx \ Selected :
          \E i \in DOMAIN plugins[p].apis : plugins[p].apis[i] \notin ApiCallSet
    /\ \E p \in Selected :
          /\ OptedIn(p)
          /\ \E i \in DOMAIN plugins[p].apis : \E j \in DOMAIN plugins[p].apis_remediate :
                plugins[p].apis[i] = plugins[p].apis_remediate[j]
          /\ \E j \in DOMAIN plugins[p].apis_remediate :
                ~\E i \in DOMAIN plugins[p].apis :
                    plugins[p].apis[i] = plugins[p].apis_remediate[j]

\* C18 (as claimed): planning succeeds whether or not a selected check's id is
\* in settings.remediate, also when the check declares no apis_remediate, and
\* the apis_remediate a check declares are in the plan when its id is.
C18_RemediateApisOptional ==
    (Planned /\ \A q \in Idx : plugins[q].hasApis) =>
        /\ ~PlanningCrashed
        /\ \A p \in Selected :
              OptedIn(p) =>
                 \A j \in DOMAIN plugins[p].apis_remediate :
                    plugins[p].apis_remediate[j] \in ApiCallSet

\* C19: when the planner has skipped every check, the engine has returned at
\* 'Nothing to collect.' and nothing happens after it: the collector is not
\* called, no check is dispatched, nothing is forwarded or remediated, the
\* output is not closed, the verdict is 0 and no exit code is set.
C19_NothingToScan ==
    (Planned /\ Len(skippedPlugins) = Len(plugins)) =>
        /\ phase = "nothing"
        /\ ~ENABLED Next
        /\ collection = NoCollection
        /\ \A p \in Idx : /\ pstate[p] = "pending"
                          /\ forwarded[p] = << >>
                          /\ rems[p] = << >>
        /\ running = 0
        /\ maximumStatus = 0
        /\ closed = 0
        /\ exitCode = -1

\* The selection has eliminated both checks of a catalog whose checks declare
\* apis, and the engine has returned.
C19_Witness ==
    /\ phase = "nothing"
    /\ Len(skippedPlugins) = Len(plugins)
    /\ \A p \in Idx : plugins[p].hasApis /\ plugins[p].apis # << >>

\* C20 (as claimed): a check that passes the selection and has no apis list,
\* or an empty one, is not skipped, planning does not fail, and once the scan
\* has joined the check has run and its results have been processed.
C20_CheckWithoutApisStillRuns ==
    \A p \in Idx :
        (/\ Planned
         /\ settings.plugin = Undefined
         /\ settings.compliance = << >>
         /\ \A q \in Idx : OptedIn(q) => plugins[q].hasApisRemediate
         /\ ~plugins[p].hasApis \/ plugins[p].apis = << >>)
        => /\ ~Includes(skippedPlugins, KeyOf(p))
           /\ ~PlanningCrashed
           /\ phase # "nothing"

\* The check passes the id filter and the compliance filter.
PassesSelection(p) ==
    /\ settings.plugin # Undefined => settings.plugin = KeyOf(p)
    /\ settings.compliance # << >> =>
          \E i \in DOMAIN settings.compliance : \E e \in plugins[p].compliance :
              e[1] = settings.compliance[i]

RECURSIVE Kept(_, _)
Kept(p, r) ==
    IF r > Len(plugins[p].results) THEN << >>
    ELSE (IF IsSuppressed(p, r) THEN << >> ELSE << plugins[p].results[r] >>)
         \o Kept(p, r + 1)

\* The results handed to outputHandler.writeResult for check p, in order.
Written(p) ==
    [i \in DOMAIN forwarded[p] |-> forwarded[p][i].result]

\* C22: what a processed check has forwarded to outputHandler.writeResult is
\* the sequence of its results that are not suppressed, each once, in the
\* order of emission; a check whose processing was cut short has forwarded a
\* prefix of it.
C22_ForwardedIsUnsuppressedSubsequence ==
    \A p \in Idx :
        /\ p \in Processed => Written(p) = Kept(p, 1)
        /\ Len(Written(p)) <= Len(Kept(p, 1))
        /\ Written(p) = SubSeq(Kept(p, 1), 1, Len(Written(p)))

\* A check that emitted status 0 for one resource and status 2 for another
\* has forwarded exactly those two, in that order, and the verdict is 2.
C22_Witness ==
    /\ phase = "joined"
    /\ maximumStatus = 2
    /\ \E p \in Processed :
          /\ Len(plugins[p].results) = 2
          /\ Len(forwarded[p]) = 2
          /\ forwarded[p][1].result.status = 0
          /\ forwarded[p][2].result.status = 2
          /\ forwarded[p][1].result.resource # forwarded[p][2].result.resource

\* C23 (as claimed): a scan that reached execution and in which no check can
\* take a step any more has called outputHandler.close exactly once.
C23_ClosedExactlyOnce ==
    (phase \in {"executing", "joined"} /\ NothingMoves) => closed = 1

\* The note the claim describes for check p: the requested programs from the
\* i-th on that its compliance map holds, each with its justification.
RECURSIVE Note(_, _)
Note(p, i) ==
    IF i > Len(settings.compliance) THEN << >>
    ELSE LET c == settings.compliance[i]
             E == { e \in plugins[p].compliance : e[1] = c }
         IN (IF E = {} THEN << >>
             ELSE << << toUpperCase(c), (CHOOSE e \in E : TRUE)[2] >> >>)
            \o Note(p, i + 1)

\* C24: the compliance note forwarded with a result lists the requested
\* programs that the check's compliance map holds, each with its
\* justification, in requested order, and it is null exactly when there is no
\* such program.
C24_ComplianceNote ==
    \A p \in Idx : \A i \in DOMAIN forwarded[p] :
        LET msg == forwarded[p][i].complianceMsg
        IN /\ msg.parts = Note(p, 1)
           /\ msg.isNull <=> Note(p, 1) = << >>
           /\ settings.compliance = << >> => msg.isNull

\* With two programs requested, one check has forwarded a note of both, in
\* requested order, and another check a note of the one program it has.
C24_Witness ==
    /\ Len(settings.compliance) = 2
    /\ \E p \in Idx : \E i \in DOMAIN forwarded[p] :
          LET msg == forwarded[p][i].complianceMsg
          IN /\ Len(msg.parts) = 2
             /\ msg.parts[1][1] = toUpperCase(settings.compliance[1])
             /\ msg.parts[2][1] = toUpperCase(settings.compliance[2])
    /\ \E p \in Idx : \E i \in DOMAIN forwarded[p] :
          /\ ~forwarded[p][i].complianceMsg.isNull
          /\ Len(forwarded[p][i].complianceMsg.parts) = 1
          /\ Cardinality(plugins[p].compliance) = 1

\* Check p calls back without error and without results.
ZeroResults(p) ==
    ~plugins[p].throws /\ ~plugins[p].err /\ plugins[p].results = << >>

\* C25: a check that calls back without error and with no results forwards
\* nothing and triggers no remediation, and its callback leaves the verdict
\* and everything else alone but for the timer that signals its completion.
C25_ZeroResultsIsNeutral ==
    [][ \A p \in Idx :
          ZeroResults(p) =>
             /\ forwarded'[p] = << >>
             /\ rems'[p] = << >>
             /\ (pstate[p] = "running" /\ pstate'[p] # "running") =>
                   /\ pstate'[p] = "timer"
                   /\ UNCHANGED << phase, maximumStatus, forwarded, rems,
                                   closed, exitCode, running >> ]_vars

\* The scan has joined with a verdict above 0 and a check without results
\* that called back after run had returned.
C25_Witness ==
    /\ phase = "joined"
    /\ maximumStatus > 0
    /\ \E p \in Idx : ZeroResults(p) /\ ~plugins[p].sync /\ pstate[p] = "done"

\* The verdict the results of the checks in P give.
VerdictOf(P) ==
    SetMax(UNION { { plugins[p].results[r].status : r \in Unsuppressed(p) } :
                   p \in P })

\* C26: the verdict never decreases, after every step it is the largest
\* unsuppressed status of the checks processed so far, in whatever order they
\* were processed, and at the join it is the one of all selected checks.
C26_VerdictIsOrderIndependent ==
    [][ /\ maximumStatus' >= maximumStatus
        /\ phase' # "crashed" => maximumStatus' = VerdictOf(Processed')
        /\ phase' = "joined" =>
              /\ maximumStatus' = VerdictOf(Selected')
              /\ settings.exit_code => exitCode' = VerdictOf(Selected') ]_vars

\* Two checks that called back after run had returned, one with a lower worst
\* status than the other, have both been processed and the scan has joined.
C26_Witness ==
    /\ phase = "joined"
    /\ \E p \in Idx : \E q \in Idx :
          /\ ~plugins[p].sync /\ ~plugins[q].sync
          /\ pstate[p] = "done" /\ pstate[q] = "done"
          /\ 0 < VerdictOf({p})
          /\ VerdictOf({p}) < VerdictOf({q})
          /\ maximumStatus = VerdictOf({q})

\* C27: once the collector has handed the snapshot over, no step of the scan
\* changes it: not the processing of results, not a remediation.
C27_SnapshotIsReadOnly ==
    [][ phase # "collecting" => collection' = collection ]_vars

\* The scan has joined after two checks ran on the snapshot and a remediation
\* read it and succeeded.
C27_Witness ==
    /\ phase = "joined"
    /\ collection \in Collections
    /\ Cardinality({ p \in Idx : pstate[p] = "done" }) >= 2
    /\ \E pj \in Attempts : AttemptOf(pj).phase = "done"

\* C28 (as claimed): the callback of a rollback that is not implemented tells
\* the caller so: it carries an error or a result that says it, and so differs
\* from the callback of a rollback that succeeded.
C28_RollbackSaysNotImplemented ==
    \A i \in DOMAIN called :
        called[i].fn = "rollback" =>
            /\ called[i].argc > 0
            /\ called[i].err \notin {Undefined, "null"}

\* The positions of the functions of a region whose details the multiple-role
\* check retrieves with an assigned role.
WithRole(region) ==
    LET lf == cache[region].listFunctions
    IN { k \in DOMAIN lf.data :
            /\ lf.state = "data"
            /\ lf.data[k].FunctionName # Undefined
            /\ cache[region].getFunction[lf.data[k].FunctionName].ok
            /\ cache[region].getFunction[lf.data[k].FunctionName].Role # Null }

AssignedRole(region, k) ==
    cache[region].getFunction[cache[region].listFunctions.data[k].FunctionName].Role

RegionSet ==
    { Regions[i] : i \in DOMAIN Regions }

\* The region-level results of one call that name a role.
RoleResults(results, region, role) ==
    { j \in DOMAIN results :
         /\ results[j].region = region
         /\ results[j].resource = UndefinedResource
         /\ results[j].message.about = role }

\* C29: the multiple-role check emits, for each region and each role assigned
\* to a function whose details were retrieved, one region-level result about
\* that role, of status 2 when more than one such function of the region has
\* the role and of status 0 when exactly one has, and no region-level result
\* about any other role.
C29_OneResultPerRole ==
    \A i \in DOMAIN called :
        called[i].fn = "lambdaMultipleRole.run" =>
            \A region \in RegionSet :
                \A role \in { RoleArn(ExistingRole), RoleArn(MyExistingRole) } :
                    LET users == { k \in WithRole(region) : AssignedRole(region, k) = role }
                        hits  == RoleResults(called[i].results, region, role)
                    IN IF users = {} THEN hits = {}
                       ELSE /\ Cardinality(hits) = 1
                            /\ \A j \in hits :
                                  called[i].results[j].status =
                                     (IF Cardinality(users) > 1 THEN 2 ELSE 0)

\* The check was called on a snapshot with a role shared by two functions in
\* one region and a role of one function in the other, and has emitted a
\* status 2 and a status 0 result for them.
C29_Witness ==
    \E i \in DOMAIN called :
        /\ called[i].fn = "lambdaMultipleRole.run"
        /\ \E role \in { RoleArn(ExistingRole), RoleArn(MyExistingRole) } :
              /\ Cardinality({ k \in WithRole(Regions[1]) :
                                  AssignedRole(Regions[1], k) = role }) = 2
              /\ \E j \in RoleResults(called[i].results, Regions[1], role) :
                    called[i].results[j].status = 2
        /\ \E j \in RoleResults(called[i].results, Regions[2], RoleArn(ExistingRole)) :
              called[i].results[j].status = 0

\* The name of the role an ARN names: what follows its last '/'.
RECURSIVE RoleNameOf(_)
RoleNameOf(arn) ==
    IF arn = << >> \/ Last(arn) = "/" THEN << >>
    ELSE RoleNameOf(SubSeq(arn, 1, Len(arn) - 1)) \o << Last(arn) >>

\* C30 (as claimed): the execution-role check emits, for every named function
\* whose details are retrieved with an assigned role, one result for that
\* function, of status 0 if the role the ARN names is in the region's role
\* list and its getRole details are there, and of status 2 otherwise.
C30_PassIffNamedRoleListed ==
    \A i \in DOMAIN called :
        called[i].fn = "lambdaMissingExecutionRole.run" =>
            \A region \in RegionSet :
                LET lr == cache[region].listRoles
                IN (lr.state = "data" /\ lr.data # << >>) =>
                   \A k \in WithRole(region) :
                      LET fn   == cache[region].listFunctions.data[k]
                          name == RoleNameOf(AssignedRole(region, k))
                          hits == { j \in DOMAIN called[i].results :
                                       /\ called[i].results[j].region = region
                                       /\ called[i].results[j].resource = fn.FunctionArn }
                      IN /\ Cardinality(hits) = 1
                         /\ \A j \in hits :
                               called[i].results[j].status =
                                  (IF /\ \E r \in DOMAIN lr.data : lr.data[r].RoleName = name
                                      /\ name \in cache[region].getRole
                                   THEN 0 ELSE 2)

\* The results of one call that lie in a region, and those among them that
\* are about the region as a whole or about one function.
InRegion(results, region) ==
    { j \in DOMAIN results : results[j].region = region }

AboutRegion(results, region) ==
    { j \in InRegion(results, region) : results[j].resource = UndefinedResource }

AboutFunction(results, region, fn) ==
    { j \in InRegion(results, region) : results[j].resource = fn.FunctionArn }

\* if (listFunctions.err || !listFunctions.data), and the same of listRoles.
Failed(entry) ==
    entry.state \in {"err", "nodata"}

\* The named functions a region lists, by position.
Named(region) ==
    LET lf == cache[region].listFunctions
    IN { k \in DOMAIN lf.data : lf.state = "data" /\ lf.data[k].FunctionName # Undefined }

\* C31 (as claimed): the execution-role check calls back once and without an
\* error, and whenever listFunctions or listRoles of a region carries an error
\* or no data it has emitted a status-3 result for that region, and whenever
\* getFunction of a listed function is not retrieved it has emitted a status-3
\* result for that function or its region.
C31_ErrorAlwaysReported ==
    \A i \in DOMAIN called :
        called[i].fn = "lambdaMissingExecutionRole.run" =>
            /\ called[i].err = "null"
            /\ \A region \in RegionSet :
                  LET lf  == cache[region].listFunctions
                      lr  == cache[region].listRoles
                      res == called[i].results
                  IN /\ (Failed(lf) \/ Failed(lr)) =>
                            \E j \in AboutRegion(res, region) : res[j].status = 3
                     /\ \A k \in Named(region) :
                            ~cache[region].getFunction[lf.data[k].FunctionName].ok =>
                               \E j \in AboutRegion(res, region)
                                        \cup AboutFunction(res, region, lf.data[k]) :
                                  res[j].status = 3

\* C31 (amended): the execution-role check calls back once, without an error
\* and with three arguments, and for each region by itself: a listFunctions
\* entry with an error or no data gives exactly one result, of status 3 and
\* about the region; a region that lists functions and whose listRoles is
\* absent, in error, without data or empty gives exactly one result, of status
\* 3 and about the region; otherwise every named function gets exactly one
\* result, of status 3 when its getFunction details are not retrieved. A
\* region without a listFunctions entry gives no result, and a region that
\* lists no function gives one status-0 result whatever listRoles holds.
C31_MissingDataIsReported ==
    /\ Cardinality({ i \in DOMAIN called :
                        called[i].fn = "lambdaMissingExecutionRole.run" }) <= 1
    /\ \A i \in DOMAIN called :
        called[i].fn = "lambdaMissingExecutionRole.run" =>
            /\ called[i].err = "null"
            /\ called[i].argc = 3
            /\ \A region \in RegionSet :
                  LET lf  == cache[region].listFunctions
                      lr  == cache[region].listRoles
                      res == called[i].results
                      one == /\ Cardinality(InRegion(res, region)) = 1
                             /\ AboutRegion(res, region) = InRegion(res, region)
                  IN CASE lf.state = "absent" -> InRegion(res, region) = {}
                       [] Failed(lf) ->
                            /\ one
                            /\ \A j \in InRegion(res, region) : res[j].status = 3
                       [] lf.state = "data" /\ lf.data = << >> ->
                            /\ one
                            /\ \A j \in InRegion(res, region) : res[j].status = 0
                       [] lf.state = "data" /\ lf.data # << >>
                             /\ (lr.state # "data" \/ lr.data = << >>) ->
                            /\ one
                            /\ \A j \in InRegion(res, region) : res[j].status = 3
                       [] OTHER ->
                            /\ AboutRegion(res, region) = {}
                            /\ Cardinality(InRegion(res, region)) =
                                  Cardinality(Named(region))
                            /\ \A k \in Named(region) :
                                  LET hits == AboutFunction(res, region, lf.data[k])
                                  IN /\ Cardinality(hits) = 1
                                     /\ ~cache[region].getFunction[lf.data[k].FunctionName].ok
                                           => \A j \in hits : res[j].status = 3

\* The check was called on a snapshot whose first region lists two functions,
\* the first without details and the second with a role that is listed, and
\* whose second region has a listFunctions error: it has emitted a status 3
\* for the first function, a status 0 for the second and a status 3 for the
\* second region.
C31_Witness ==
    \E i \in DOMAIN called :
        /\ called[i].fn = "lambdaMissingExecutionRole.run"
        /\ LET lf  == cache[Regions[1]].listFunctions
               res == called[i].results
           IN /\ lf.state = "data"
              /\ Len(lf.data) = 2
              /\ ~cache[Regions[1]].getFunction[lf.data[1].FunctionName].ok
              /\ \E j \in AboutFunction(res, Regions[1], lf.data[1]) : res[j].status = 3
              /\ \E j \in AboutFunction(res, Regions[1], lf.data[2]) : res[j].status = 0
              /\ Failed(cache[Regions[2]].listFunctions)
              /\ \E j \in AboutRegion(res, Regions[2]) : res[j].status = 3

\* The named functions of a region whose getFunction entry holds a
\* Configuration without a role.
WithoutRole(region) ==
    { k \in Named(region) :
         LET getFunction ==
                cache[region].getFunction[cache[region].listFunctions.data[k].FunctionName]
         IN getFunction.ok /\ getFunction.Role = Null }

\* The regions in which a check gets as far as retrieving the configuration
\* of the functions: all of them for the multiple-role check, those with a
\* filled role list for the execution-role check.
Retrieves(fn, region) ==
    \/ fn = "lambdaMultipleRole.run"
    \/ /\ fn = "lambdaMissingExecutionRole.run"
       /\ cache[region].listRoles.state = "data"
       /\ cache[region].listRoles.data # << >>

\* C32: for a function whose retrieved configuration has no assigned role,
\* the multiple-role check and the execution-role check each emit a status-3
\* result for that function and no result of status 0 or 2 for it.
C32_NoRoleIsError ==
    \A i \in DOMAIN called :
        called[i].fn \in {"lambdaMultipleRole.run", "lambdaMissingExecutionRole.run"} =>
            \A region \in RegionSet :
                Retrieves(called[i].fn, region) =>
                    \A k \in WithoutRole(region) :
                        LET res  == called[i].results
                            hits == AboutFunction(res, region,
                                                  cache[region].listFunctions.data[k])
                        IN /\ \E j \in hits : res[j].status = 3
                           /\ \A j \in hits : res[j].status \notin {0, 2}

\* Both checks were called on a snapshot in which a function without a role
\* stands next to a function with one, and each has emitted a status 3 for
\* the first; the other function got its status 0 from the execution-role
\* check.
C32_Witness ==
    \E region \in RegionSet :
        \E k \in WithoutRole(region) :
            LET fn == cache[region].listFunctions.data[k]
            IN /\ \A f \in {"lambdaMultipleRole.run", "lambdaMissingExecutionRole.run"} :
                     \E i \in DOMAIN called :
                        /\ called[i].fn = f
                        /\ Retrieves(f, region)
                        /\ \E j \in AboutFunction(called[i].results, region, fn) :
                              called[i].results[j].status = 3
               /\ \E i \in DOMAIN called, k2 \in WithRole(region) :
                     /\ called[i].fn = "lambdaMissingExecutionRole.run"
                     /\ \E j \in AboutFunction(called[i].results, region,
                                               cache[region].listFunctions.data[k2]) :
                           called[i].results[j].status = 0

\* The topology of the scanned GitHub account, as a check's types name it.
Topology ==
    IF cloudConfig.organization THEN "org" ELSE "user"

\* C33 (as claimed): under the github provider a check that passes the id and
\* compliance filters is skipped by the planner exactly when its declared
\* account types do not include the topology of the scanned account.
C33_SkippedIffTopologyNotDeclared ==
    (Planned /\ ~PlanningCrashed /\ settings.cloud = "github") =>
        \A p \in Idx :
            PassesSelection(p) =>
                (p \notin Selected <=> Topology \notin plugins[p].types)

\* The cells of a transaction log, of all three phases.
Cells(file) ==
    DOMAIN file.pre_remediate \cup DOMAIN file.remediate
        \cup DOMAIN file.post_remediate

\* C34 (as claimed): plugin.remediate is only ever called with a defined
\* resource, and no transaction log has a cell keyed by an undefined resource.
C34_RemediateOnlyWithResource ==
    \A pj \in Attempts :
        /\ AttemptOf(pj).resource # UndefinedResource
        /\ \A c \in Cells(AttemptOf(pj).file) : c[2] # PropertyKey(UndefinedResource)

\* C35 (as claimed): a remediate call on a resource finds the cells of the
\* check id the engine initialised and writes under that check id only: it
\* does not throw on a missing cell, and every cell of its log is one of the
\* check's own id.
C35_LogKeyedByEngineCheckId ==
    \A pj \in Attempts :
        LET a == AttemptOf(pj)
        IN a.resource # UndefinedResource =>
              /\ a.phase # "threw"
              /\ \A c \in Cells(a.file) : c[1] = KeyOf(pj[1])

====
